---- MODULE Spec2Model ----
(***************************************************************************)
(* Model of the motion word game: the App screen state (App.tsx) and the   *)
(* GameLevel session (GameLevel.tsx): option generation, the collision     *)
(* loop, handleSelection, nextLevel and the timers they schedule.          *)
(*                                                                         *)
(* A state of the model is a committed React render.  Handlers and timer   *)
(* callbacks read the values their closure captured at that render; the    *)
(* state updates of one callback are applied together (batched) and give   *)
(* the next commit.  The passive effects of a commit (useEffect) run in    *)
(* the step after it, before any other event is handled.                   *)
(*                                                                         *)
(* Lengths are integers in units of 1/1200 of the screen (0.3 = 360),      *)
(* visibility in tenths (0.5 = 5), time in seconds.  Player indexes and    *)
(* the word index are 0-based as in the source; sequences are 1-based.     *)
(* A WordItem is represented by its id.                                    *)
(***************************************************************************)
EXTENDS Integers, Sequences, FiniteSets

\* ------------------------------------------------------------------ bounds
MaxTimers == 2
MaxWords == 5
MaxUnits == 2
MaxDraftWords == 1

\* --------------------------------------------------------------- constants
Null == -1
NumPoses == 2
COLLISION_THRESHOLD == 180
BoxCY == 360
HeadOffset == 144
WrongDelay == 1
NextDelay == 2
ExitDelay == 4
ButtonX == 600           \* MotionStart: buttonX = 0.5
ButtonY == 360           \* MotionStart: buttonY = 0.3
ButtonRadius == 180      \* MotionStart: buttonRadius = 0.15
HoldCount == 20          \* MotionStart: triggerCount > 20

Players == {0, 1}

\* constants.ts: the built-in units.  Unit k has the k words 1..k.
UNITS == [k \in 1..3 |-> [id |-> k, words |-> [i \in 1..k |-> i]]]

VARIABLES
    screen,            \* App: 'menu' | 'motion-start' | 'game'
    units,             \* App: the unit list
    currentUnit,       \* App: the selected unit, or NoUnit
    numPlayers,        \* App: 1 or 2
    gameMode,          \* App: 'classic' | 'translation'
    isManageMode,      \* Menu state
    editingUnit,       \* Menu state: the unit being edited, or NoUnit
    isCreating,        \* Menu state
    title,             \* UnitEditor state: the title, a string
    words,             \* UnitEditor state: the word list being edited
    newZh,             \* UnitEditor state: the Chinese field of a new word
    newEn,             \* UnitEditor state: the English field of a new word
    bulkText,          \* UnitEditor state: the lines of the bulk text
    landmarks,         \* usePoseLandmarker state: the persons of the frame
    currentWordIndex,  \* GameLevel state
    scores,            \* GameLevel state, [0..1 -> Nat]
    gameState,         \* GameLevel state
    options,           \* GameLevel state, sequence of word ids
    winner,            \* GameLevel state, player index or Null
    wrongSelectionId,  \* GameLevel state, word id or Null
    sortedLandmarks,   \* GameLevel: the landmarks of the last frame, sorted
    triggerCount,      \* MotionStart state: the hold counter
    framesInZone,      \* history: landmark frames in a row, up to the last
                       \* one, that MotionStart got with a head in its zone
    pendingEffects,    \* effects of the last commit that have not run yet
    timers,            \* pending setTimeout callbacks, in creation order
    finalMsg,          \* outcome the mounted GameLevel has announced
    crashed            \* a render threw (currentTarget undefined)

vars == <<screen, units, currentUnit, numPlayers, gameMode, isManageMode,
          editingUnit, isCreating, title, words, newZh, newEn, bulkText,
          landmarks, currentWordIndex,
          scores, gameState, options, winner, wrongSelectionId,
          sortedLandmarks, triggerCount, framesInZone,
          pendingEffects, timers, finalMsg, crashed>>

appVars == <<screen, units, currentUnit, numPlayers, gameMode>>
draftVars == <<newZh, newEn, bulkText>>
menuVars == <<isManageMode, editingUnit, isCreating, title, words, draftVars>>
startVars == <<triggerCount, framesInZone>>
levelVars == <<currentWordIndex, scores, gameState, options, winner,
               wrongSelectionId, landmarks, sortedLandmarks>>

NoUnit == [id |-> 0, words |-> << >>]

\* GameLevel is rendered when screen === 'game' && currentUnit.
Mounted == screen = "game" /\ currentUnit # NoUnit

\* ------------------------------------------------------ landmark frames
\* One detected person: the nose landmark (index 0), or no nose at all.
NoNose == [has |-> FALSE, x |-> 0, y |-> 0, visibility |-> 0]

Nose(x, y, v) == [has |-> TRUE, x |-> x, y |-> y, visibility |-> v]

\* Nose positions fed to the model.  Mirrored head x is 1200 - x; the head
\* point is on the zone row (cy = 360) when y = 504.
PersonInputs ==
    { Nose(1100, 504, 9),   \* head x 100: zone 0 (player 0 of two)
      Nose(500, 504, 9),    \* head x 700: zone 1 (zone 0 of player 1)
      Nose(300, 504, 9) }   \* head x 900: zone 2 (zone 1 of player 1)

RECURSIVE SeqsUpTo(_, _)
SeqsUpTo(S, n) ==
    IF n = 0 THEN { << >> }
    ELSE LET shorter == SeqsUpTo(S, n - 1)
         IN  shorter \cup { Append(s, x) : s \in shorter, x \in S }

\* numPoses: 2: a frame holds at most two persons; the landmark source
\* lists them in any order.
FrameInputs ==
    { f \in SeqsUpTo(PersonInputs, NumPoses) :
        \A i, j \in DOMAIN f : i # j => f[i] # f[j] }

\* More persons, for the specification of single frames: a head between
\* two zones of a player, noses that are not confidently tracked, no nose
\* at all, a nose at x = 0, and persons with the same nose x.
WidePersonInputs ==
    PersonInputs \cup
    { Nose(1000, 504, 9),   \* head x 200: between zones 0 and 1 (two players)
      Nose(1100, 504, 5),   \* on zone 0, visibility 0.5
      Nose(500, 504, 3),    \* on zone 1, visibility 0.3
      NoNose,
      Nose(0, 504, 9),      \* nose at the left edge of the camera image
      Nose(1100, 648, 9),   \* head 0.12 below the centre of zone 0 (two players)
      Nose(960, 684, 9),    \* head 0.15 below the centre of zone 0 (one player)
      Nose(1100, 360, 9),   \* nose on the centre of zone 0, head 0.12 above it
      Nose(960, 664, 9) }   \* head 0.133 below the centre of zone 0 (one player)

WideFrameInputs ==
    { f \in SeqsUpTo(WidePersonInputs, NumPoses) :
        \A i, j \in DOMAIN f : i # j => f[i] # f[j] }

\* ------------------------------------------------------- sortedLandmarks
\* 1 - (a[0]?.x || 0.5): a missing nose and x = 0 both count as 0.5.
SortKey(p) == 1200 - (IF p.has /\ p.x # 0 THEN p.x ELSE 600)

\* Mutant of InsertSorted: a person is put before the persons it ties with.
RECURSIVE InsertSortedBeforeTies(_, _)
InsertSortedBeforeTies(sorted, p) ==
    IF sorted = << >> THEN <<p>>
    ELSE IF SortKey(p) <= SortKey(Head(sorted))
         THEN <<p>> \o sorted
         ELSE <<Head(sorted)>> \o InsertSortedBeforeTies(Tail(sorted), p)

\* Array.prototype.sort with the comparator ax - bx: stable, so a person
\* goes after the persons it ties with.
RECURSIVE InsertSorted(_, _)
InsertSorted(sorted, p) ==
    IF sorted = << >> THEN <<p>>
    ELSE IF SortKey(p) < SortKey(Head(sorted))
         THEN <<p>> \o sorted
         ELSE <<Head(sorted)>> \o InsertSorted(Tail(sorted), p)

RECURSIVE SortLandmarks(_)
SortLandmarks(lm) ==
    IF lm = << >> THEN << >>
    ELSE InsertSorted(SortLandmarks(SubSeq(lm, 1, Len(lm) - 1)), lm[Len(lm)])

\* ------------------------------------------------------- generateOptions
Range(s) == { s[i] : i \in DOMAIN s }

Perms(S) ==
    { s \in [1..Cardinality(S) -> S] : Range(s) = S }

\* Mutant of GenerateOptions: up to three of all the words, shuffled.
GenerateOptionsFromAll(allWords, correctWord) ==
    LET all == Range(allWords)
        k == IF Cardinality(all) < 3 THEN Cardinality(all) ELSE 3
    IN  UNION { Perms(D) : D \in { E \in SUBSET all : Cardinality(E) = k } }

\* others = all words but the target; two of them in random order are kept
\* (all of them when there are fewer), the target is added and the result
\* is shuffled: any arrangement of the target with up to two others.
GenerateOptions(allWords, correctWord) ==
    LET others == { allWords[i] : i \in { j \in DOMAIN allWords :
                                            allWords[j] # correctWord } }
        k == IF Cardinality(others) < 2 THEN Cardinality(others) ELSE 2
        picks == { D \in SUBSET others : Cardinality(D) = k }
    IN  UNION { Perms(D \cup {correctWord}) : D \in picks }

\* Mutant of AllWordsAfter: the word list itself is sorted, here into the
\* reverse order.
AllWordsReversed(allWords) ==
    [i \in DOMAIN allWords |-> allWords[Len(allWords) + 1 - i]]

\* unit.words after generateOptions(unit.words, ..): filter makes a new
\* array and the two sorts work on new arrays, the argument is as it was.
AllWordsAfter(allWords) == allWords

\* --------------------------------------------------------- current target
Words == currentUnit.words

TargetDefined(idx) == idx + 1 \in DOMAIN Words

\* unit.words[currentWordIndex]; Null stands for undefined.
CurrentTarget == IF TargetDefined(currentWordIndex)
                 THEN Words[currentWordIndex + 1] ELSE Null

\* ---------------------------------------------------------- hit zones
\* Mutant of BoxCX: with two players the half of the player is not added.
BoxCXNoOffset(np, playerIdx, boxIdx) ==
    IF np = 1
    THEN CASE boxIdx = 0 -> 240
           [] boxIdx = 1 -> 600
           [] boxIdx = 2 -> 960
           [] OTHER -> 600
    ELSE (boxIdx * 2 + 1) * 100

\* Box centre of option boxIdx for player playerIdx (collision loop).
BoxCX(np, playerIdx, boxIdx) ==
    IF np = 1
    THEN CASE boxIdx = 0 -> 240
           [] boxIdx = 1 -> 600
           [] boxIdx = 2 -> 960
           [] OTHER -> 600
    ELSE (IF playerIdx = 0 THEN 0 ELSE 600) + (boxIdx * 2 + 1) * 100

Threshold(np) ==
    IF np = 1 THEN COLLISION_THRESHOLD ELSE (COLLISION_THRESHOLD * 8) \div 10

\* Mutant of Hit: a distance equal to the threshold counts as a hit.
HitAtThreshold(np, playerIdx, boxIdx, nose) ==
    LET headX == 1200 - nose.x
        headY == nose.y - HeadOffset
        dx == headX - BoxCX(np, playerIdx, boxIdx)
        dy == headY - BoxCY
    IN  dx * dx + dy * dy <= Threshold(np) * Threshold(np)

\* distance < threshold, compared on the squares.
Hit(np, playerIdx, boxIdx, nose) ==
    LET headX == 1200 - nose.x
        headY == nose.y - HeadOffset
        dx == headX - BoxCX(np, playerIdx, boxIdx)
        dy == headY - BoxCY
    IN  dx * dx + dy * dy < Threshold(np) * Threshold(np)

\* Mutant of Tracked: the visibility of the nose is not looked at.
TrackedAnyVisibility(sorted, playerIdx) ==
    /\ playerIdx + 1 \in DOMAIN sorted
    /\ sorted[playerIdx + 1].has

\* sortedLandmarks[playerIdx] exists, has a nose, visibility > 0.5.
Tracked(sorted, playerIdx) ==
    /\ playerIdx + 1 \in DOMAIN sorted
    /\ sorted[playerIdx + 1].has
    /\ sorted[playerIdx + 1].visibility > 5

\* The calls handleSelection(opt, playerIdx, ..) one run of the collision
\* effect makes, in loop order: players ascending, options.forEach inside.
CollisionEvents(gs, sorted, opts, np) ==
    IF gs # "playing" \/ sorted = << >> \/ opts = << >> THEN << >>
    ELSE LET n == Len(opts)
             all == [k \in 1..(np * n) |->
                        [opt |-> opts[((k - 1) % n) + 1],
                         player |-> (k - 1) \div n,
                         boxIdx |-> (k - 1) % n]]
             Emits(e) == /\ Tracked(sorted, e.player)
                         /\ Hit(np, e.player, e.boxIdx, sorted[e.player + 1])
         IN  SelectSeq(all, Emits)

\* ------------------------------------------------------------- timers
\* The final message nextLevel speaks, from the scores of its closure.
FinalMsg(np, sc) ==
    IF np > 1
    THEN IF sc[0] > sc[1] THEN "player1"
         ELSE IF sc[1] > sc[0] THEN "player2" ELSE "tie"
    ELSE "done"

\* A pending callback: whether the instance that created it is still
\* mounted (live), the seconds left, and what the callback reads from its
\* closure.  nextLevel reads currentWordIndex < unit.words.length - 1
\* (more) and, only at the end of the unit, numPlayers and scores, for the
\* message it speaks (msg); both are fixed when the callback is created.
Timer(kind, delay, more, msg) ==
    [kind |-> kind, live |-> TRUE, remaining |-> delay, more |-> more,
     msg |-> msg]

ZeroScores == [p \in Players |-> 0]

\* setTimeout(() => nextLevel(), 2000): nextLevel of the calling render.
NextTimer(cl) ==
    IF cl.idx < cl.len - 1
    THEN Timer("next", NextDelay, TRUE, "none")
    ELSE Timer("next", NextDelay, FALSE, FinalMsg(cl.np, cl.scores))

\* setTimeout(() => { setGameState('playing'); ... }, 1000)
ResetTimer(cl) ==
    Timer("reset", WrongDelay, FALSE, "none")

\* setTimeout(onExit, 4000): onExit is handleExitGame of App.
ExitTimer(live) ==
    [Timer("exit", ExitDelay, FALSE, "none") EXCEPT !.live = live]

\* ----------------------------------------------------- handleSelection
\* Mutant of HandleSelection: the wrong branch touches the scores too.
HandleSelectionWrongScores(u, cl, e) ==
    IF cl.gameState # "playing" THEN u
    ELSE IF e.opt = cl.target
         THEN [u EXCEPT !.gameState = "feedback_correct",
                        !.winner = e.player,
                        !.scores = [cl.scores EXCEPT ![e.player] = @ + 1],
                        !.timers = Append(@, NextTimer(cl))]
         ELSE [u EXCEPT !.gameState = "feedback_wrong",
                        !.wrongSelectionId = e.opt,
                        !.scores = [cl.scores EXCEPT ![e.player] = @ + 1],
                        !.timers = Append(@, ResetTimer(cl))]

\* cl: the values captured by the render whose handleSelection is called.
\* u: the state updates queued so far in this batch (last write wins).
HandleSelection(u, cl, e) ==
    IF cl.gameState # "playing" THEN u
    ELSE IF e.opt = cl.target
         THEN [u EXCEPT !.gameState = "feedback_correct",
                        !.winner = e.player,
                        !.scores = [cl.scores EXCEPT ![e.player] = @ + 1],
                        !.timers = Append(@, NextTimer(cl))]
         ELSE [u EXCEPT !.gameState = "feedback_wrong",
                        !.wrongSelectionId = e.opt,
                        !.timers = Append(@, ResetTimer(cl))]

RECURSIVE ApplySelections(_, _, _)
ApplySelections(u, cl, evs) ==
    IF evs = << >> THEN u
    ELSE ApplySelections(HandleSelection(u, cl, Head(evs)), cl, Tail(evs))

\* The values the handlers of the current commit close over.
Closure ==
    [gameState |-> gameState, scores |-> scores, target |-> CurrentTarget,
     idx |-> currentWordIndex, len |-> Len(Words), np |-> numPlayers]

NoUpdates ==
    [gameState |-> gameState, winner |-> winner, scores |-> scores,
     wrongSelectionId |-> wrongSelectionId, timers |-> << >>]

\* Mutant of CollisionEffect: the loop and the handler do not look at the
\* phase.
CollisionEffectAnyPhase(sorted) ==
    ApplySelections(NoUpdates, [Closure EXCEPT !.gameState = "playing"],
        CollisionEvents("playing", sorted, options, numPlayers))

\* The updates queued by the collision effect of the current commit when
\* it runs on the sorted landmarks.
CollisionEffect(sorted) ==
    ApplySelections(NoUpdates, Closure,
        CollisionEvents(gameState, sorted, options, numPlayers))

\* ------------------------------------------------------------ rendering
\* promptText reads currentTarget.english / .word while 'playing'.
RenderThrows(idx, gs) == gs = "playing" /\ ~TargetDefined(idx)

\* -------------------------------------------------------------- Init
\* The state MotionStart mounts with.
StartInitial ==
    /\ triggerCount' = 0
    /\ framesInZone' = 0

LevelInitial ==
    /\ currentWordIndex' = 0
    /\ scores' = ZeroScores
    /\ gameState' = "playing"
    /\ options' = << >>
    /\ winner' = Null
    /\ wrongSelectionId' = Null
    /\ landmarks' = << >>
    /\ sortedLandmarks' = << >>
    /\ finalMsg' = "none"

Init ==
    /\ screen = "menu"
    /\ units = UNITS
    /\ currentUnit = NoUnit
    /\ numPlayers = 1
    /\ gameMode = "classic"
    /\ isManageMode = FALSE
    /\ editingUnit = NoUnit
    /\ isCreating = FALSE
    /\ title = << >>
    /\ words = << >>
    /\ newZh = << >>
    /\ newEn = << >>
    /\ bulkText = << >>
    /\ currentWordIndex = 0
    /\ scores = ZeroScores
    /\ gameState = "playing"
    /\ options = << >>
    /\ winner = Null
    /\ wrongSelectionId = Null
    /\ landmarks = << >>
    /\ sortedLandmarks = << >>
    /\ triggerCount = 0
    /\ framesInZone = 0
    /\ pendingEffects = {}
    /\ timers = << >>
    /\ finalMsg = "none"
    /\ crashed = FALSE

\* ------------------------------------------------------------ App
\* Menu: setNumPlayers(1) / setNumPlayers(2)
SetNumPlayers(n) ==
    /\ ~crashed /\ screen = "menu" /\ n # numPlayers
    /\ numPlayers' = n
    /\ UNCHANGED <<startVars, screen, units, currentUnit, gameMode, menuVars,
                   levelVars,
                   pendingEffects, timers, finalMsg, crashed>>

\* Menu: setGameMode('classic') / setGameMode('translation')
SetGameMode(m) ==
    /\ ~crashed /\ screen = "menu" /\ m # gameMode
    /\ gameMode' = m
    /\ UNCHANGED <<startVars, screen, units, currentUnit, numPlayers, menuVars,
                   levelVars, pendingEffects, timers, finalMsg, crashed>>

\* A unit card of the menu outside manage mode (onSelectUnit(unit)):
\* handleSelectUnit.
SelectUnit(i) ==
    /\ ~crashed /\ screen = "menu"
    /\ ~isManageMode /\ editingUnit = NoUnit /\ ~isCreating
    /\ currentUnit' = units[i]
    /\ screen' = "motion-start"
    /\ UNCHANGED <<startVars, units, numPlayers, gameMode, menuVars, levelVars,
                   pendingEffects,
                   timers, finalMsg, crashed>>

\* handleMotionStartComplete; GameLevel mounts with its initial state and
\* the effects of its first commit are due.
MotionStartComplete ==
    /\ ~crashed /\ screen = "motion-start"
    /\ screen' = "game"
    /\ LevelInitial
    /\ pendingEffects' = {"options", "collision"}
    /\ crashed' = RenderThrows(0, "playing")
    /\ StartInitial
    /\ UNCHANGED <<units, currentUnit, numPlayers, gameMode, menuVars,
                   timers>>

\* What is left of the pending callbacks when GameLevel unmounts.  A
\* callback that only sets state of the unmounted instance does nothing
\* from then on and is dropped; nextLevel at the end of the unit still
\* speaks (to nobody: msg is forgotten) and schedules onExit, and onExit
\* belongs to App.
Unmounted(ts) ==
    LET Acts(t) == t.kind = "exit" \/ (t.kind = "next" /\ ~t.more)
        kept == SelectSeq(ts, Acts)
    IN  [i \in DOMAIN kept |->
            [kept[i] EXCEPT !.live = FALSE, !.msg = "none"]]

\* Mutant of HandleExitGame: the current unit is kept.
HandleExitGameKeepsUnit(ts) ==
    /\ screen' = "menu"
    /\ currentUnit' = currentUnit
    /\ LevelInitial
    /\ pendingEffects' = {}
    /\ timers' = Unmounted(ts)
    /\ StartInitial
    /\ UNCHANGED <<units, numPlayers, gameMode, menuVars>>

\* Mutant of HandleExitGame: the number of players goes back to one.
HandleExitGameOnePlayer(ts) ==
    /\ screen' = "menu"
    /\ currentUnit' = NoUnit
    /\ numPlayers' = 1
    /\ LevelInitial
    /\ pendingEffects' = {}
    /\ timers' = Unmounted(ts)
    /\ StartInitial
    /\ UNCHANGED <<units, gameMode, menuVars>>

\* handleExitGame: back to the menu; GameLevel (or MotionStart) unmounts.
HandleExitGame(ts) ==
    /\ screen' = "menu"
    /\ currentUnit' = NoUnit
    /\ LevelInitial
    /\ pendingEffects' = {}
    /\ timers' = Unmounted(ts)
    /\ StartInitial
    /\ UNCHANGED <<units, numPlayers, gameMode, menuVars>>

\* The exit button of GameLevel (onClick={onExit}).
ExitButton ==
    /\ ~crashed /\ Mounted /\ pendingEffects = {}
    /\ HandleExitGame(timers)
    /\ UNCHANGED crashed

\* ------------------------------------------------------------ GameLevel
\* detect(): setLandmarks(results.landmarks).  sortedLandmarks of the new
\* commit is recomputed (useMemo on landmarks) and is a new array, so its
\* collision effect runs, on the new frame
\* and with the state of that commit; the updates it queues give the next
\* commit, whose collision effect is due when gameState changed.
Frame(lm) ==
    /\ ~crashed /\ Mounted /\ pendingEffects = {}
    /\ landmarks' = lm
    /\ sortedLandmarks' = SortLandmarks(lm)
    /\ \E u \in {CollisionEffect(SortLandmarks(lm))} :
           /\ Len(timers) + Len(u.timers) <= MaxTimers
           /\ gameState' = u.gameState
           /\ winner' = u.winner
           /\ scores' = u.scores
           /\ wrongSelectionId' = u.wrongSelectionId
           /\ timers' = timers \o u.timers
           /\ pendingEffects' = IF u.gameState # gameState
                                THEN {"collision"} ELSE {}
    /\ UNCHANGED <<startVars, appVars, menuVars, currentWordIndex, options, finalMsg,
                   crashed>>

\* The passive effects due after a commit made by a timer callback, by the
\* mount or by effects, in source order: the options effect
\* (setOptions(generateOptions(..)) when currentTarget is defined), then
\* the collision loop with the options of that commit.  Their updates are
\* batched into the next commit, whose collision effect is due when
\* gameState or options changed.
FlushEffects ==
    /\ ~crashed /\ Mounted /\ pendingEffects # {}
    /\ \E runOptions \in {"options" \in pendingEffects
                               /\ TargetDefined(currentWordIndex)},
          u \in {IF "collision" \in pendingEffects
                 THEN CollisionEffect(sortedLandmarks) ELSE NoUpdates} :
           /\ Len(timers) + Len(u.timers) <= MaxTimers
           /\ \E newOptions \in (IF runOptions
                                 THEN GenerateOptions(Words, CurrentTarget)
                                 ELSE {options}) :
                 options' = newOptions
           /\ currentUnit' = IF runOptions
                             THEN [currentUnit EXCEPT
                                      !.words = AllWordsAfter(@)]
                             ELSE currentUnit
           /\ gameState' = u.gameState
           /\ winner' = u.winner
           /\ scores' = u.scores
           /\ wrongSelectionId' = u.wrongSelectionId
           /\ timers' = timers \o u.timers
           /\ pendingEffects' = IF runOptions \/ u.gameState # gameState
                                THEN {"collision"} ELSE {}
    /\ UNCHANGED <<startVars, screen, units, numPlayers, gameMode, menuVars,
                   currentWordIndex, landmarks, sortedLandmarks, finalMsg,
                   crashed>>

\* ------------------------------------------------------- timer callbacks
Due(i) ==
    /\ i \in DOMAIN timers
    /\ timers[i].remaining = 0
    /\ \A j \in 1..(i - 1) : timers[j].remaining # 0

Without(i) ==
    [k \in 1..(Len(timers) - 1) |-> IF k < i THEN timers[k] ELSE timers[k + 1]]

\* The setState calls of a callback reach the instance that created it only
\* while that instance is mounted.
Live(t) == Mounted /\ t.live

\* The callback of the wrong branch of handleSelection.
FireReset(i) ==
    /\ ~crashed /\ pendingEffects = {} /\ Due(i) /\ timers[i].kind = "reset"
    /\ timers' = Without(i)
    /\ IF Live(timers[i])
       THEN /\ gameState' = "playing"
            /\ winner' = Null
            /\ wrongSelectionId' = Null
            /\ pendingEffects' = IF gameState # "playing"
                                 THEN {"collision"} ELSE {}
       ELSE UNCHANGED <<gameState, winner, wrongSelectionId, pendingEffects>>
    /\ UNCHANGED <<startVars, appVars, menuVars, currentWordIndex, scores, options,
                   landmarks, sortedLandmarks, finalMsg, crashed>>

\* nextLevel, called by the timer of the correct branch.
FireNext(i) ==
    /\ ~crashed /\ pendingEffects = {} /\ Due(i) /\ timers[i].kind = "next"
    /\ LET t == timers[i]
       IN  IF t.more
           THEN /\ timers' = Without(i)
                /\ UNCHANGED finalMsg
                /\ IF Live(t)
                   THEN /\ winner' = Null
                        /\ wrongSelectionId' = Null
                        /\ currentWordIndex' = currentWordIndex + 1
                        /\ gameState' = "playing"
                        /\ crashed' = RenderThrows(currentWordIndex + 1,
                                                   "playing")
                        /\ pendingEffects' =
                              IF crashed' THEN {}
                              ELSE {"options"} \cup
                                   (IF gameState # "playing"
                                    THEN {"collision"} ELSE {})
                   ELSE UNCHANGED <<winner, wrongSelectionId,
                                    currentWordIndex, gameState, crashed,
                                    pendingEffects>>
           ELSE /\ timers' = Append(Without(i), ExitTimer(Live(t)))
                /\ IF Live(t)
                   THEN /\ winner' = Null
                        /\ wrongSelectionId' = Null
                        /\ finalMsg' = t.msg
                   ELSE UNCHANGED <<winner, wrongSelectionId, finalMsg>>
                /\ UNCHANGED <<currentWordIndex, gameState, crashed,
                               pendingEffects>>
    /\ UNCHANGED <<startVars, appVars, menuVars, scores, options, landmarks,
                   sortedLandmarks>>

\* setTimeout(onExit, 4000): handleExitGame of App.
FireExit(i) ==
    /\ ~crashed /\ pendingEffects = {} /\ Due(i) /\ timers[i].kind = "exit"
    /\ HandleExitGame(Without(i))
    /\ UNCHANGED crashed

\* One second passes; a due callback runs before more time passes.
Advance ==
    /\ ~crashed /\ pendingEffects = {}
    /\ timers # << >>
    /\ \A i \in DOMAIN timers : timers[i].remaining > 0
    /\ timers' = [i \in DOMAIN timers |->
                     [timers[i] EXCEPT !.remaining = @ - 1]]
    /\ UNCHANGED <<startVars, appVars, menuVars, levelVars, pendingEffects, finalMsg,
                   crashed>>

Next ==
    \/ \E n \in 1..2 : SetNumPlayers(n)
    \/ \E i \in DOMAIN units : SelectUnit(i)
    \/ MotionStartComplete
    \/ ExitButton
    \/ \E lm \in FrameInputs : Frame(lm)
    \/ FlushEffects
    \/ \E i \in DOMAIN timers : FireReset(i)
    \/ \E i \in DOMAIN timers : FireNext(i)
    \/ \E i \in DOMAIN timers : FireExit(i)
    \/ Advance

Spec == Init /\ [][Next]_vars

\* ------------------------------------------------- Menu and UnitEditor
\* The editor modal is shown when editingUnit || isCreating; it covers the
\* menu.
EditorOpen == editingUnit # NoUnit \/ isCreating

\* Ids made from Date.now() and Math.random(): an id not in use.
NewId(used) == CHOOSE n \in 1..(Cardinality(used) + 1) : n \notin used

\* Strings are sequences of characters: " " is white space, "|", "tab" and
\* "," are the separators of the bulk format, anything else is a letter.
RECURSIVE TrimStart(_)
TrimStart(s) ==
    IF s # << >> /\ Head(s) = " " THEN TrimStart(Tail(s)) ELSE s

RECURSIVE TrimEnd(_)
TrimEnd(s) ==
    IF s # << >> /\ s[Len(s)] = " "
    THEN TrimEnd(SubSeq(s, 1, Len(s) - 1)) ELSE s

\* Mutant of Trim: the string is taken as it is.
TrimNothing(s) == s

\* String.prototype.trim
Trim(s) == TrimEnd(TrimStart(s))

\* String.prototype.split on one of the characters of seps.
RECURSIVE Split(_, _)
Split(s, seps) ==
    IF \E i \in DOMAIN s : s[i] \in seps
    THEN LET i == CHOOSE j \in DOMAIN s :
                     /\ s[j] \in seps
                     /\ \A l \in 1..(j - 1) : s[l] \notin seps
         IN  <<SubSeq(s, 1, i - 1)>> \o Split(SubSeq(s, i + 1, Len(s)), seps)
    ELSE <<s>>

\* handleBulkProcess, one line: TRUE when the line gives a word.
LineParses(line) ==
    LET byBar == Split(line, {"|"})
        byTab == IF Len(byBar) < 2 THEN Split(line, {"tab"}) ELSE byBar
        parts == IF Len(byTab) < 2 THEN Split(line, {","}) ELSE byTab
    IN  /\ Trim(line) # << >>
        /\ Len(parts) >= 2
        /\ Trim(parts[1]) # << >>
        /\ Trim(parts[2]) # << >>

\* handleBulkProcess: newItems.length
NewItemsLength(text) ==
    Cardinality({ i \in DOMAIN text : LineParses(text[i]) })

\* What is typed into the title field, and into the fields of a new word.
TitleInputs == { << >>, <<" ">>, <<"t">> }
FieldInputs == { << >>, <<" ">>, <<"w">> }

\* What is typed into the bulk text area, as lines.
BulkInputs ==
    { << << >> >>,
      << <<"w">> >>,
      << <<"w", "|", " ">> >>,
      << <<"w", "|", "w">> >>,
      << <<"w", ",", "w">> >>,
      << <<" ", "w", "tab", "w">> >>,
      << <<"w", "|", "w">>, <<"w">> >>,
      << <<"w", "|", "w">>, <<"w", ",", "w">> >> }

\* UnitEditor unmounted: its state is gone.
EditorClosed ==
    /\ editingUnit' = NoUnit
    /\ isCreating' = FALSE
    /\ title' = << >>
    /\ words' = << >>
    /\ newZh' = << >>
    /\ newEn' = << >>
    /\ bulkText' = << >>

\* Menu: setIsManageMode(!isManageMode)
ToggleManageMode ==
    /\ ~crashed /\ screen = "menu" /\ ~EditorOpen
    /\ isManageMode' = ~isManageMode
    /\ UNCHANGED <<startVars, appVars, editingUnit, isCreating, title, words,
                   draftVars, levelVars, pendingEffects, timers, finalMsg,
                   crashed>>

\* A unit card in manage mode: setEditingUnit(unit); UnitEditor mounts with
\* the title (units have one: handleSave requires it) and words of the unit.
EditUnit(i) ==
    /\ ~crashed /\ screen = "menu" /\ isManageMode /\ ~EditorOpen
    /\ editingUnit' = units[i]
    /\ title' = <<"t">>
    /\ words' = units[i].words
    /\ UNCHANGED <<startVars, appVars, isManageMode, isCreating, draftVars,
                   levelVars, pendingEffects, timers, finalMsg, crashed>>

\* 'Add New Unit': setIsCreating(true); UnitEditor mounts empty.
StartCreating ==
    /\ ~crashed /\ screen = "menu" /\ isManageMode /\ ~EditorOpen
    /\ isCreating' = TRUE
    /\ title' = << >>
    /\ words' = << >>
    /\ UNCHANGED <<startVars, appVars, isManageMode, editingUnit, draftVars,
                   levelVars, pendingEffects, timers, finalMsg, crashed>>

\* The title input: setTitle(e.target.value)
SetTitle(t) ==
    /\ ~crashed /\ screen = "menu" /\ EditorOpen /\ t # title
    /\ title' = t
    /\ UNCHANGED <<startVars, appVars, isManageMode, editingUnit, isCreating,
                   words, draftVars, levelVars, pendingEffects, timers,
                   finalMsg, crashed>>

\* The fields of a new word: setNewZh(e.target.value)
SetNewZh(v) ==
    /\ ~crashed /\ screen = "menu" /\ EditorOpen /\ v # newZh
    /\ newZh' = v
    /\ UNCHANGED <<startVars, appVars, isManageMode, editingUnit, isCreating,
                   title, words, newEn, bulkText, levelVars, pendingEffects,
                   timers, finalMsg, crashed>>

\* setNewEn(e.target.value)
SetNewEn(v) ==
    /\ ~crashed /\ screen = "menu" /\ EditorOpen /\ v # newEn
    /\ newEn' = v
    /\ UNCHANGED <<startVars, appVars, isManageMode, editingUnit, isCreating,
                   title, words, newZh, bulkText, levelVars, pendingEffects,
                   timers, finalMsg, crashed>>

\* The bulk text area: setBulkText(e.target.value)
SetBulkText(t) ==
    /\ ~crashed /\ screen = "menu" /\ EditorOpen /\ t # bulkText
    /\ bulkText' = t
    /\ UNCHANGED <<startVars, appVars, isManageMode, editingUnit, isCreating,
                   title, words, newZh, newEn, levelVars, pendingEffects,
                   timers, finalMsg, crashed>>

\* handleAddWord with zh and en in the two fields: nothing happens when one
\* of them is blank, else the word is added and the fields are cleared.
AddWord(zh, en) ==
    /\ ~crashed /\ screen = "menu" /\ EditorOpen
    /\ IF Trim(zh) = << >> \/ Trim(en) = << >>
       THEN /\ words' = words
            /\ newZh' = zh
            /\ newEn' = en
       ELSE /\ Len(words) < MaxDraftWords
            /\ words' = Append(words, NewId(Range(words)))
            /\ newZh' = << >>
            /\ newEn' = << >>
    /\ UNCHANGED <<startVars, appVars, isManageMode, editingUnit, isCreating,
                   title, bulkText, levelVars, pendingEffects, timers,
                   finalMsg, crashed>>

\* handleAddWord
HandleAddWord == AddWord(newZh, newEn)

RECURSIVE AppendNew(_, _)
AppendNew(ws, k) ==
    IF k = 0 THEN ws ELSE AppendNew(Append(ws, NewId(Range(ws))), k - 1)

\* handleBulkProcess with text in the text area: the words of the lines
\* that parse are added and the text is cleared; when no line parses there
\* is an alert and nothing else.
BulkProcess(text) ==
    /\ ~crashed /\ screen = "menu" /\ EditorOpen
    /\ IF NewItemsLength(text) > 0
       THEN /\ Len(words) + NewItemsLength(text) <= MaxDraftWords
            /\ words' = AppendNew(words, NewItemsLength(text))
            /\ bulkText' = << >>
       ELSE /\ words' = words
            /\ bulkText' = text
    /\ UNCHANGED <<startVars, appVars, isManageMode, editingUnit, isCreating,
                   title, newZh, newEn, levelVars, pendingEffects, timers,
                   finalMsg, crashed>>

\* handleBulkProcess
HandleBulkProcess == BulkProcess(bulkText)

\* handleDeleteWord
HandleDeleteWord(id) ==
    /\ ~crashed /\ screen = "menu" /\ EditorOpen
    /\ id \in Range(words)
    /\ words' = SelectSeq(words, LAMBDA w : w # id)
    /\ UNCHANGED <<startVars, appVars, isManageMode, editingUnit, isCreating,
                   title, draftVars, levelVars, pendingEffects, timers,
                   finalMsg, crashed>>

\* Mutant of CanSave: the word list is not checked.
CanSaveAnyWords == Trim(title) # << >>

\* UnitEditor.handleSave goes on to onSave only with a title and at least
\* one word.
CanSave == Trim(title) # << >> /\ Len(words) >= 1

\* Mutant of HandleUpdateUnit: the unit is always added at the end.
HandleUpdateUnitAppends(prev, updatedUnit) == Append(prev, updatedUnit)

\* App.handleUpdateUnit
HandleUpdateUnit(prev, updatedUnit) ==
    IF \E i \in DOMAIN prev : prev[i].id = updatedUnit.id
    THEN [i \in DOMAIN prev |->
             IF i = CHOOSE j \in DOMAIN prev :
                       /\ prev[j].id = updatedUnit.id
                       /\ \A l \in 1..(j - 1) : prev[l].id # updatedUnit.id
             THEN updatedUnit ELSE prev[i]]
    ELSE Append(prev, updatedUnit)

\* App.handleDeleteUnit
HandleDeleteUnit(prev, id) == SelectSeq(prev, LAMBDA u : u.id # id)

\* UnitEditor.handleSave, Menu.handleSave, App.handleUpdateUnit: an alert
\* and nothing else without a title or without words.
HandleSave ==
    /\ ~crashed /\ screen = "menu" /\ EditorOpen
    /\ IF CanSave
       THEN /\ editingUnit # NoUnit \/ Len(units) < MaxUnits
            /\ LET newUnit ==
                       [id |-> IF editingUnit # NoUnit THEN editingUnit.id
                               ELSE NewId({ units[i].id : i \in DOMAIN units }),
                        words |-> words]
               IN  units' = HandleUpdateUnit(units, newUnit)
            /\ EditorClosed
       ELSE UNCHANGED <<units, editingUnit, isCreating, title, words,
                        draftVars>>
    /\ UNCHANGED <<startVars, screen, currentUnit, numPlayers, gameMode,
                   isManageMode, levelVars, pendingEffects, timers, finalMsg,
                   crashed>>

\* onCancel of the editor.
OnCancel ==
    /\ ~crashed /\ screen = "menu" /\ EditorOpen
    /\ EditorClosed
    /\ UNCHANGED <<startVars, appVars, isManageMode, levelVars,
                   pendingEffects, timers, finalMsg, crashed>>

\* Menu.handleDelete (App.handleDeleteUnit): the delete button of a card
\* in manage mode, or of the editor of an existing unit.
HandleDelete(id) ==
    /\ ~crashed /\ screen = "menu"
    /\ IF EditorOpen THEN editingUnit # NoUnit /\ id = editingUnit.id
       ELSE isManageMode /\ \E i \in DOMAIN units : units[i].id = id
    /\ units' = HandleDeleteUnit(units, id)
    /\ editingUnit' = NoUnit
    /\ IF EditorOpen
       THEN title' = << >> /\ words' = << >> /\ newZh' = << >>
            /\ newEn' = << >> /\ bulkText' = << >>
       ELSE UNCHANGED <<title, words, draftVars>>
    /\ UNCHANGED <<startVars, screen, currentUnit, numPlayers, gameMode,
                   isManageMode, isCreating, levelVars, pendingEffects,
                   timers, finalMsg, crashed>>

\* Content management on the menu, and starting and leaving sessions.  The
\* fields of the editor are filled in and the button is pressed in one
\* step, with a title, a word and bulk texts that are accepted.
NextEditor ==
    \/ ToggleManageMode
    \/ \E i \in DOMAIN units : EditUnit(i)
    \/ StartCreating
    \/ \E t \in {<< >>, <<"t">>} : SetTitle(t)
    \/ AddWord(<<"w">>, <<"w">>)
    \/ \E t \in { b \in BulkInputs : NewItemsLength(b) > 0 } : BulkProcess(t)
    \/ \E id \in Range(words) : HandleDeleteWord(id)
    \/ HandleSave
    \/ OnCancel
    \/ \E id \in { units[i].id : i \in DOMAIN units } : HandleDelete(id)
    \/ \E i \in DOMAIN units : SelectUnit(i)
    \/ MotionStartComplete
    \/ FlushEffects
    \/ ExitButton

SpecEditor == Init /\ [][NextEditor]_vars

\* The editor, field by field: every input is typed on its own and stays
\* in its field until the handler clears it.
NextDraft ==
    \/ ToggleManageMode
    \/ \E i \in DOMAIN units : EditUnit(i)
    \/ StartCreating
    \/ \E t \in TitleInputs : SetTitle(t)
    \/ \E v \in FieldInputs : SetNewZh(v)
    \/ \E v \in FieldInputs : SetNewEn(v)
    \/ \E t \in BulkInputs : SetBulkText(t)
    \/ HandleAddWord
    \/ HandleBulkProcess
    \/ \E id \in Range(words) : HandleDeleteWord(id)
    \/ HandleSave
    \/ OnCancel

SpecDraft == Init /\ [][NextDraft]_vars

\* ------------------------------------------------------- MotionStart
\* The start effect's loop: a tracked head of an active player inside the
\* start button.
StartHit(sorted, np) ==
    \E i \in 0..(np - 1) :
        /\ i + 1 \in DOMAIN sorted
        /\ sorted[i + 1].has
        /\ sorted[i + 1].visibility > 5
        /\ LET dx == (1200 - sorted[i + 1].x) - ButtonX
               dy == (sorted[i + 1].y - HeadOffset) - ButtonY
           IN  dx * dx + dy * dy < ButtonRadius * ButtonRadius

\* detect() of MotionStart's own usePoseLandmarker: setLandmarks.  The
\* update joins a render that is still to come; the start effect of the
\* commit is due (sortedLandmarks is a new array).
MotionFrame(lm) ==
    /\ ~crashed /\ screen = "motion-start" /\ "start" \notin pendingEffects
    /\ landmarks' = lm
    /\ sortedLandmarks' = SortLandmarks(lm)
    /\ framesInZone' = IF StartHit(SortLandmarks(lm), numPlayers)
                       THEN framesInZone + 1 ELSE 0
    /\ pendingEffects' = {"start"}
    /\ UNCHANGED <<triggerCount, appVars, menuVars, currentWordIndex, scores,
                   gameState, options, winner, wrongSelectionId, timers,
                   finalMsg, crashed>>

\* The start effect (dependencies sortedLandmarks, triggerCount,
\* numPlayers, onStart): nothing without landmarks; on a hit onStart()
\* when triggerCount > 20, else triggerCount + 1; without a hit
\* triggerCount 0.  A changed triggerCount asks for a new render.
StartEffect ==
    /\ ~crashed /\ screen = "motion-start" /\ "start" \in pendingEffects
    /\ IF /\ sortedLandmarks # << >>
          /\ StartHit(sortedLandmarks, numPlayers)
          /\ triggerCount > HoldCount
       THEN MotionStartComplete
       ELSE /\ triggerCount' =
                  IF sortedLandmarks = << >> THEN triggerCount
                  ELSE IF StartHit(sortedLandmarks, numPlayers)
                       THEN triggerCount + 1
                       ELSE 0
            /\ pendingEffects' = IF triggerCount' # triggerCount
                                 THEN {"render"} ELSE {}
            /\ UNCHANGED <<framesInZone, appVars, menuVars, levelVars, timers,
                           finalMsg, crashed>>

\* The render MotionStart's own setTriggerCount asked for: triggerCount is
\* a dependency of the start effect, which is due again.
StartRender ==
    /\ ~crashed /\ screen = "motion-start" /\ pendingEffects = {"render"}
    /\ pendingEffects' = {"start"}
    /\ UNCHANGED <<startVars, appVars, menuVars, levelVars, timers, finalMsg,
                   crashed>>

\* The start screen frame by frame, up to the start of the session.
NextMotion ==
    \/ \E n \in 1..2 : SetNumPlayers(n)
    \/ \E i \in DOMAIN units : SelectUnit(i)
    \/ \E lm \in FrameInputs : MotionFrame(lm)
    \/ StartEffect
    \/ StartRender
    \/ FlushEffects
    \/ ExitButton

SpecMotion == Init /\ [][NextMotion]_vars

\* --------------------------------------------------------- App screens
\* Frames of at most one person.
OnePersonFrames == { << >> } \cup { <<p>> : p \in PersonInputs }

\* Sessions with the settings of the menu and the deletion of units.
NextApp ==
    \/ \E n \in 1..2 : SetNumPlayers(n)
    \/ \E m \in {"classic", "translation"} : SetGameMode(m)
    \/ ToggleManageMode
    \/ \E id \in { units[i].id : i \in DOMAIN units } : HandleDelete(id)
    \/ \E i \in DOMAIN units : SelectUnit(i)
    \/ MotionStartComplete
    \/ ExitButton
    \/ \E lm \in OnePersonFrames : Frame(lm)
    \/ FlushEffects
    \/ \E i \in DOMAIN timers : FireReset(i)
    \/ \E i \in DOMAIN timers : FireNext(i)
    \/ \E i \in DOMAIN timers : FireExit(i)
    \/ Advance

SpecApp == Init /\ [][NextApp]_vars

\* ----------------------------------------------------- single frames
\* A session that has just generated the options of its first word, fed
\* one frame after the other from the wide set of persons.
InitFrames ==
    /\ screen = "game"
    /\ units = UNITS
    /\ currentUnit \in Range(UNITS)
    /\ numPlayers \in 1..2
    /\ gameMode = "classic"
    /\ isManageMode = FALSE
    /\ editingUnit = NoUnit
    /\ isCreating = FALSE
    /\ title = << >>
    /\ words = << >>
    /\ newZh = << >>
    /\ newEn = << >>
    /\ bulkText = << >>
    /\ currentWordIndex = 0
    /\ scores = ZeroScores
    /\ gameState = "playing"
    /\ options \in GenerateOptions(currentUnit.words, currentUnit.words[1])
    /\ winner = Null
    /\ wrongSelectionId = Null
    /\ landmarks = << >>
    /\ sortedLandmarks = << >>
    /\ triggerCount = 0
    /\ framesInZone = 0
    /\ pendingEffects = {}
    /\ timers = << >>
    /\ finalMsg = "none"
    /\ crashed = FALSE

NextFrames ==
    \/ \E lm \in WideFrameInputs : Frame(lm)
    \/ FlushEffects

SpecFrames == InitFrames /\ [][NextFrames]_vars

\* ------------------------------------------------- option generation
\* Units of 1..MaxWords words, as the unit editor can make them.
GenUnits == { [id |-> n, words |-> [i \in 1..n |-> i]] : n \in 1..MaxWords }

\* A one-player session on any word of such a unit, right after the commit
\* that made this word the target (the mount for word 0, nextLevel for the
\* others, every earlier word answered by player 0): its options effect
\* is due, the options are still those of the previous word.
InitGen ==
    /\ screen = "game"
    /\ units \in { <<u>> : u \in GenUnits }
    /\ currentUnit = units[1]
    /\ numPlayers = 1
    /\ gameMode = "classic"
    /\ isManageMode = FALSE
    /\ editingUnit = NoUnit
    /\ isCreating = FALSE
    /\ title = << >>
    /\ words = << >>
    /\ newZh = << >>
    /\ newEn = << >>
    /\ bulkText = << >>
    /\ currentWordIndex \in 0..(Len(currentUnit.words) - 1)
    /\ scores = [ZeroScores EXCEPT ![0] = currentWordIndex]
    /\ gameState = "playing"
    /\ options \in (IF currentWordIndex = 0 THEN { << >> }
                    ELSE GenerateOptions(currentUnit.words,
                                         currentUnit.words[currentWordIndex]))
    /\ winner = Null
    /\ wrongSelectionId = Null
    /\ landmarks = << >>
    /\ sortedLandmarks = << >>
    /\ triggerCount = 0
    /\ framesInZone = 0
    /\ pendingEffects = {"options", "collision"}
    /\ timers = << >>
    /\ finalMsg = "none"
    /\ crashed = FALSE

NextGen == FlushEffects

SpecGen == InitGen /\ [][NextGen]_vars

\* ======================================================================
\* Steps and events the properties speak about
\* ======================================================================

\* The step ran the collision effect of the current commit: a frame, or
\* the flush of a commit whose collision effect was due.
CollisionRan ==
    /\ Mounted /\ Mounted' /\ ~crashed
    /\ pendingEffects = {} \/ "collision" \in pendingEffects
    /\ Len(timers') >= Len(timers)
    /\ SubSeq(timers', 1, Len(timers)) = timers

\* The selection events of the step (the handleSelection calls it made).
StepEvents ==
    IF CollisionRan
    THEN CollisionEvents(gameState, sortedLandmarks', options, numPlayers)
    ELSE << >>

IsCorrect(e) == e.opt = CurrentTarget

\* The step is the callback of pending timer i.
Fires(i, kind) ==
    /\ ~crashed /\ pendingEffects = {}
    /\ Due(i) /\ timers[i].kind = kind
    /\ IF kind = "exit"
       THEN timers' = Unmounted(Without(i))
       ELSE /\ screen' = screen
            /\ \/ timers' = Without(i)
               \/ timers' = Append(Without(i), ExitTimer(Live(timers[i])))

TargetCount == Cardinality({ i \in DOMAIN options : options[i] = CurrentTarget })

\* ======================================================================
\* Properties
\* ======================================================================

\* C1: whenever a mounted session is in phase 'playing', exactly one item
\* of the option set has the id of the current target word.
C1_ExactlyOneTarget ==
    (Mounted /\ ~crashed /\ gameState = "playing") => TargetCount = 1

\* C2: a correct selection by player p moves the phase to
\* 'feedback_correct', records p as the winner and raises p's score by
\* exactly 1 while every other score keeps its value.
C2_CorrectSelection ==
    [][\A k \in DOMAIN StepEvents :
          IsCorrect(StepEvents[k]) =>
             /\ gameState' = "feedback_correct"
             /\ winner' = StepEvents[k].player
             /\ scores' = [scores EXCEPT ![StepEvents[k].player] = @ + 1]]_vars

\* A step that ran the callback of a wrong selection of the mounted
\* instance.
ResetFires == \E i \in DOMAIN timers : Fires(i, "reset") /\ Live(timers[i])

C4_NoSelectionOutsidePlaying ==
    [][(CollisionRan /\ gameState # "playing")
          => UNCHANGED <<scores, currentWordIndex, gameState, winner,
                         wrongSelectionId, options, timers>>]_vars

\* C4 witness: during feedback the effect has run on a frame with a head
\* inside a zone, and nothing was selected.
C4_Witness ==
    /\ Mounted /\ gameState # "playing" /\ pendingEffects = {}
    /\ CollisionEvents("playing", sortedLandmarks, options, numPlayers)
          # << >>
    /\ Len(timers) = 1

\* C5: when a tick produces several selection events, only the first is
\* applied: the next commit is the one handleSelection gives for it alone.
C5_OnlyFirstSelectionApplied ==
    [][Len(StepEvents) >= 2 =>
          \E u \in {HandleSelection(NoUpdates, Closure, Head(StepEvents))} :
             /\ gameState' = u.gameState
             /\ winner' = u.winner
             /\ scores' = u.scores
             /\ wrongSelectionId' = u.wrongSelectionId
             /\ timers' = timers \o u.timers]_vars

\* C6: while the phase is 'playing' the word index is within
\* [0, unit.words.length).
C6_IndexInRange ==
    (Mounted /\ gameState = "playing") => currentWordIndex < Len(Words)

\* C7: a callback scheduled by a session that has been exited changes no
\* application state when it runs (only the timer list loses it).
C7_StaleTimersChangeNothing ==
    [][\A i \in DOMAIN timers :
          (~timers[i].live /\ (Fires(i, "exit") \/ Fires(i, "next")))
             => UNCHANGED <<appVars, menuVars, levelVars, pendingEffects,
                            finalMsg, crashed>>]_vars

\* C8: with two players the announced outcome is 'player 1 wins' exactly
\* when player 1's score is greater, 'player 2 wins' exactly when it is
\* smaller, 'tie' exactly when the scores are equal.
C8_OutcomeMatchesScores ==
    (Mounted /\ numPlayers = 2 /\ finalMsg # "none")
       => /\ finalMsg = "player1" <=> scores[0] > scores[1]
          /\ finalMsg = "player2" <=> scores[0] < scores[1]
          /\ finalMsg = "tie" <=> scores[0] = scores[1]

\* C9: after a correct selection on a word that is not the last, the phase
\* is 'feedback_correct' until nextLevel runs, and nextLevel then gives
\* phase 'playing' with the word index increased by 1 and a defined target.
C9_AdvanceByOne ==
    [][\A i \in DOMAIN timers :
          (Fires(i, "next") /\ Live(timers[i]) /\ timers[i].more)
             => /\ gameState = "feedback_correct"
                /\ gameState' = "playing"
                /\ currentWordIndex' = currentWordIndex + 1
                /\ currentWordIndex' < Len(Words)]_vars

\* C10: a wrong selection gives phase 'feedback_wrong' with the chosen
\* option id recorded, and its callback returns from 'feedback_wrong' to
\* 'playing' with the same target word and the same option set.
C10_WrongThenBack ==
    [][/\ \A k \in DOMAIN StepEvents :
             ~IsCorrect(StepEvents[k])
                => /\ gameState' = "feedback_wrong"
                   /\ \E j \in DOMAIN StepEvents :
                         /\ ~IsCorrect(StepEvents[j])
                         /\ wrongSelectionId' = StepEvents[j].opt
       /\ ResetFires
          => /\ gameState = "feedback_wrong"
             /\ gameState' = "playing"
             /\ currentWordIndex' = currentWordIndex
             /\ options' = options]_vars

\* The session has made the correct selection for its last word: nextLevel
\* of the end of the unit is pending, or has announced the outcome.
LastWordDone ==
    /\ Mounted /\ ~crashed
    /\ \/ finalMsg # "none"
       \/ \E i \in DOMAIN timers :
             timers[i].kind = "next" /\ timers[i].live /\ ~timers[i].more

\* C11: once the correct selection has been made on the last word of the
\* unit, the phase is never 'playing' again in that session (so no further
\* selection is accepted) until the session exits.
C11_LastWordFinishes ==
    LastWordDone => gameState # "playing"

\* C12: within a session the word index never decreases, an index is only
\* reached after that many correct selections (none is skipped), and the
\* outcome is announced only when every word of the unit has been answered.
C12_IndexInOrder ==
    [][(Mounted /\ Mounted' /\ ~crashed)
          => /\ currentWordIndex' >= currentWordIndex
             /\ currentWordIndex' <= scores'[0] + scores'[1]
             /\ finalMsg' # "none"
                   => scores'[0] + scores'[1] = Len(Words)]_vars

\* C13: every exit from the game leaves the application on the menu with
\* no current unit, and every session that starts begins with phase
\* 'playing', word index 0, both scores 0, no winner and no wrong selection.
C13_ExitResets ==
    [][/\ (Mounted /\ ~Mounted')
          => screen' = "menu" /\ currentUnit' = NoUnit
       /\ (~Mounted /\ Mounted')
          => /\ gameState' = "playing"
             /\ currentWordIndex' = 0
             /\ scores' = ZeroScores
             /\ winner' = Null
             /\ wrongSelectionId' = Null]_vars

\* C13 witness: a session has just started while a callback of an earlier
\* session, exited during its feedback, is still pending.
C13_Witness ==
    /\ Mounted /\ pendingEffects = {"options", "collision"}
    /\ gameState = "playing" /\ currentWordIndex = 0 /\ scores = ZeroScores
    /\ \E i \in DOMAIN timers : ~timers[i].live

\* C15: a session in phase 'playing' always has an option set: it is
\* generated for word 0 before the first 'playing' state.
C15_OptionsFromTheStart ==
    (Mounted /\ ~crashed /\ gameState = "playing") => options # << >>

\* C14: one run of the collision effect emits at most one selection event
\* per player.
C14_OneEventPerPlayer ==
    [][\A p \in Players :
          Cardinality({ k \in DOMAIN StepEvents :
                          StepEvents[k].player = p }) <= 1]_vars

\* The frame with every person whose nose is missing or has visibility
\* <= 0.5 replaced by a person without nose.
Masked(sorted) ==
    [i \in DOMAIN sorted |->
        IF sorted[i].has /\ sorted[i].visibility > 5 THEN sorted[i]
        ELSE NoNose]

\* C18: a run of the collision effect gives the commit it would give if
\* the persons that are not confidently tracked had no nose at all: such
\* a person selects nothing, wherever its nose is, and the other player is
\* evaluated as usual.
C18_UntrackedNeverSelects ==
    [][CollisionRan =>
          \E u \in {CollisionEffect(Masked(sortedLandmarks'))} :
             /\ gameState' = u.gameState
             /\ winner' = u.winner
             /\ scores' = u.scores
             /\ wrongSelectionId' = u.wrongSelectionId
             /\ timers' = timers \o u.timers]_vars

\* C18 witness: with two players, player 0's nose is on a zone but not
\* confidently tracked, and player 1 has made a selection in that frame.
C18_Witness ==
    /\ Mounted /\ numPlayers = 2 /\ Len(sortedLandmarks) = 2
    /\ sortedLandmarks[1].has /\ sortedLandmarks[1].visibility <= 5
    /\ \E b \in 0..(Len(options) - 1) : Hit(2, 0, b, sortedLandmarks[1])
    /\ gameState # "playing" /\ Len(timers) = 1
    /\ winner = 1 \/ wrongSelectionId # Null

\* Mirrored horizontal nose position, 0.5 for a person without nose.
MirroredX(p) == IF p.has THEN 1200 - p.x ELSE 600

\* C19: the sorted landmarks are in ascending order of 1 - nose.x, a
\* person without nose counting as x = 0.5.
C19_AscendingMirroredX ==
    \A i, j \in DOMAIN sortedLandmarks :
       i < j => MirroredX(sortedLandmarks[i]) <= MirroredX(sortedLandmarks[j])

\* C20: the sorted list is the sort of the frame as delivered, sorting it
\* again gives the same list, and the same frame delivered again gives the
\* same order.
C20_SortIdempotent ==
    [][/\ sortedLandmarks' = SortLandmarks(landmarks')
       /\ SortLandmarks(sortedLandmarks') = sortedLandmarks'
       /\ landmarks' = landmarks => sortedLandmarks' = sortedLandmarks]_vars

\* C20 witness: a frame of two different persons with tied sort keys, kept
\* in the order of the frame.
C20_Witness ==
    /\ Len(sortedLandmarks) = 2
    /\ sortedLandmarks[1] # sortedLandmarks[2]
    /\ sortedLandmarks[1].has /\ sortedLandmarks[2].has
    /\ sortedLandmarks[1].x = sortedLandmarks[2].x
    /\ sortedLandmarks = landmarks

Min(a, b) == IF a < b THEN a ELSE b

\* C16: once the options effect has run for the current word, the option
\* set has exactly min(3, n) items with pairwise distinct ids, all words of
\* the unit, the target among them.
C16_OptionsWellFormed ==
    (Mounted /\ ~crashed /\ "options" \notin pendingEffects)
       => /\ Len(options) = Min(3, Len(Words))
          /\ \A i, j \in DOMAIN options : i # j => options[i] # options[j]
          /\ Range(options) \subseteq Range(Words)
          /\ CurrentTarget \in Range(options)

\* C16 witness: options generated for a later word of a unit of more than
\* three words, with a distractor that is neither of the first two words.
C16_Witness ==
    /\ Mounted /\ "options" \notin pendingEffects
    /\ Len(Words) > 3 /\ currentWordIndex > 0
    /\ Len(options) = 3
    /\ \E i \in DOMAIN options : options[i] > 3 /\ options[i] # CurrentTarget

\* C17: every unit of the unit list, and every unit that has been selected
\* for play, has at least one word.
C17_PlayableUnitsHaveWords ==
    /\ \A i \in DOMAIN units : Len(units[i].words) >= 1
    /\ screen # "menu" => Len(currentUnit.words) >= 1
    /\ ~crashed

\* C17 witness: a built-in unit from which words were deleted in the
\* editor is being played.
C17_Witness ==
    /\ Mounted
    /\ \E k \in DOMAIN UNITS :
          /\ UNITS[k].id = currentUnit.id
          /\ Len(currentUnit.words) < Len(UNITS[k].words)

\* C25: the players' scores sum to at most the word index plus 1 and to at
\* most the number of words of the unit: a word gives at most one point.
C25_OnePointPerWord ==
    (Mounted /\ ~crashed)
       => /\ scores[0] + scores[1] <= currentWordIndex + 1
          /\ scores[0] + scores[1] <= Len(Words)

\* C26: the collision loop makes a selection only with the options that
\* were generated for the current target: never while the options effect
\* of the commit that changed the target has not run yet.
C26_NoSelectionOnOldOptions ==
    [][StepEvents # << >> => "options" \notin pendingEffects]_vars

\* C27: a winner is recorded only in phase 'feedback_correct', a wrong
\* selection only in phase 'feedback_wrong', where it is a displayed option
\* other than the target; in phase 'playing' neither is recorded.
C27_FeedbackFieldsConsistent ==
    (Mounted /\ ~crashed)
       => /\ winner # Null => gameState = "feedback_correct"
          /\ wrongSelectionId # Null
                => /\ gameState = "feedback_wrong"
                   /\ wrongSelectionId \in Range(options)
                   /\ wrongSelectionId # CurrentTarget

\* Zone centres as the layout defines them: 0.2, 0.5, 0.8 with one player,
\* p * 0.5 + ((2 * option + 1) / 6) * 0.5 with two.
LayoutCX(np, p, b) ==
    IF np = 1 THEN <<240, 600, 960>>[b + 1] ELSE 600 * p + (2 * b + 1) * 100

\* Squared distance of the head point of a nose from (cx, 0.3).
HeadDist2(nose, cx) ==
    (1200 - nose.x - cx) * (1200 - nose.x - cx)
       + (nose.y - HeadOffset - BoxCY) * (nose.y - HeadOffset - BoxCY)

\* C21: every selection of player p on option b is a head within the
\* threshold of the layout's centre for (p, b) at height 0.3, and with two
\* players that centre lies in p's half of the screen.
C21_ZoneCentres ==
    [][\A k \in DOMAIN StepEvents :
          LET e == StepEvents[k]
              cx == LayoutCX(numPlayers, e.player, e.boxIdx)
          IN  /\ HeadDist2(sortedLandmarks'[e.player + 1], cx)
                    < Threshold(numPlayers) * Threshold(numPlayers)
              /\ numPlayers = 2
                    => cx >= 600 * e.player /\ cx <= 600 * e.player + 600]_vars

\* C21 witness: with two players, both have made a selection in one frame,
\* player 0's head in the left half and player 1's in the right half.
C21_Witness ==
    /\ Mounted /\ numPlayers = 2 /\ Len(sortedLandmarks) = 2
    /\ gameState # "playing" /\ Len(timers) = 2
    /\ Tracked(sortedLandmarks, 0) /\ Tracked(sortedLandmarks, 1)
    /\ 1200 - sortedLandmarks[1].x < 600
    /\ 1200 - sortedLandmarks[2].x > 600

\* The (player, option) pairs whose head point is at squared distance
\* strictly less than the squared threshold from the zone centre: the
\* configured constant with one player, 0.8 times it with two.
StrictHits(sorted) ==
    LET t == IF numPlayers = 1 THEN COLLISION_THRESHOLD
             ELSE (COLLISION_THRESHOLD * 8) \div 10
    IN  { pb \in (0..(numPlayers - 1)) \X (0..(Len(options) - 1)) :
            /\ pb[1] + 1 \in DOMAIN sorted
            /\ sorted[pb[1] + 1].has
            /\ sorted[pb[1] + 1].visibility > 5
            /\ HeadDist2(sorted[pb[1] + 1], BoxCX(numPlayers, pb[1], pb[2]))
                  < t * t }

\* C22: a run of the collision loop in phase 'playing' makes a selection
\* for exactly the (player, option) pairs whose head point (1 - nose.x,
\* nose.y - 0.12) is strictly inside the threshold circle of the zone.
C22_StrictDistance ==
    [][(CollisionRan /\ gameState = "playing")
          => /\ { <<StepEvents[k].player, StepEvents[k].boxIdx>> :
                     k \in DOMAIN StepEvents } = StrictHits(sortedLandmarks')
             /\ Len(timers') - Len(timers)
                   = Cardinality(StrictHits(sortedLandmarks'))]_vars

\* C22 witness: a frame has been evaluated in which a tracked head is at
\* exactly the threshold distance from a zone centre, and nothing was
\* selected.
C22_Witness ==
    /\ Mounted /\ gameState = "playing" /\ pendingEffects = {}
    /\ timers = << >> /\ options # << >>
    /\ \E p \in 0..(numPlayers - 1), b \in 0..(Len(options) - 1) :
          /\ Tracked(sortedLandmarks, p)
          /\ HeadDist2(sortedLandmarks[p + 1], BoxCX(numPlayers, p, b))
                = Threshold(numPlayers) * Threshold(numPlayers)

\* C23: from the selection of a unit until the session is left the session's
\* unit, its word list included, is the one that was selected from the unit
\* list, whatever was deleted before and whichever options are generated.
C23_SessionSnapshot ==
    [][/\ (screen # "menu" /\ screen' # "menu") => currentUnit' = currentUnit
       /\ (screen = "menu" /\ screen' # "menu")
             => currentUnit' \in Range(units) /\ units' = units]_vars

\* C23 witness: after a deletion in the unit list, a session is at its
\* second word or later with the options of that word generated, in an
\* order other than that of the unit's words.
C23_Witness ==
    /\ Mounted /\ ~crashed /\ units # UNITS
    /\ currentWordIndex >= 1 /\ pendingEffects = {}
    /\ Len(options) = 3 /\ CurrentTarget \in Range(options)
    /\ options[1] > options[2]
    /\ currentUnit \in Range(units)

\* C24: MotionStart calls the start callback only when the frames before
\* it, more than 20 in a row, each had the head of an active player inside
\* the start button.
C24_StartNeedsHold ==
    [][(screen = "motion-start" /\ screen' = "game")
          => framesInZone > HoldCount]_vars

\* C28: 'motion-start' and 'game' are shown only with a current unit; 'game'
\* is entered only from 'motion-start', 'motion-start' only from the menu
\* with a unit of the unit list; going back to the menu leaves the unit
\* list, the number of players and the game mode as they are.
C28_ScreenFlow ==
    [][/\ screen' \in {"motion-start", "game"} => currentUnit' # NoUnit
       /\ (screen' = "game" /\ screen # "game") => screen = "motion-start"
       /\ (screen' = "motion-start" /\ screen # "motion-start")
             => screen = "menu" /\ currentUnit' \in Range(units)
       /\ (screen # "menu" /\ screen' = "menu")
             => /\ units' = units
                /\ numPlayers' = numPlayers
                /\ gameMode' = gameMode]_vars

\* C28 witness: back on the menu after a two-player session in translation
\* mode on a shortened unit list, that session's exit callback still
\* pending.
C28_Witness ==
    /\ screen = "menu" /\ currentUnit = NoUnit
    /\ numPlayers = 2 /\ gameMode = "translation" /\ units # UNITS
    /\ \E i \in DOMAIN timers : timers[i].kind = "exit"

UnitIds(us) == { us[i].id : i \in DOMAIN us }

DistinctIds(us) ==
    \A i, j \in DOMAIN us : i # j => us[i].id # us[j].id

RemoveAt(us, i) == SubSeq(us, 1, i - 1) \o SubSeq(us, i + 1, Len(us))

\* C29: unit ids are pairwise distinct, and the unit list only changes by
\* the edited unit being replaced at its position by the draft, by the
\* created unit being added at the end under a new id, or by exactly the
\* deleted unit being removed; all other units stay, in their order.
C29_UpsertAndDelete ==
    [][/\ DistinctIds(units) /\ DistinctIds(units')
       /\ units' # units
             => \/ /\ editingUnit # NoUnit
                   /\ \E i \in DOMAIN units :
                         /\ units[i].id = editingUnit.id
                         /\ units' = [units EXCEPT
                                         ![i] = [id |-> editingUnit.id,
                                                 words |-> words]]
                \/ /\ isCreating
                   /\ Len(units') = Len(units) + 1
                   /\ SubSeq(units', 1, Len(units)) = units
                   /\ units'[Len(units')].words = words
                   /\ units'[Len(units')].id \notin UnitIds(units)
                \/ \E i \in DOMAIN units :
                         /\ units' = RemoveAt(units, i)
                         /\ EditorOpen => units[i].id = editingUnit.id]_vars

\* C29 witness: the first two built-in units are deleted, the third has
\* been edited to fewer words and is in the first place, and a created unit
\* has been added after it.
C29_Witness ==
    /\ ~EditorOpen /\ Len(units) = 2
    /\ units[1].id = 3 /\ Len(units[1].words) < 3
    /\ units[2].id # 3 /\ Len(units[2].words) = 1

\* A string of white space only.
Blank(s) == \A i \in DOMAIN s : s[i] = " "

\* A line with a separator between two parts that are not blank.
GivesWord(line) ==
    \E j \in DOMAIN line :
        /\ line[j] \in {"|", "tab", ","}
        /\ \E i \in 1..(j - 1) : line[i] \notin {"|", "tab", ",", " "}
        /\ \E k \in (j + 1)..Len(line) : line[k] \notin {"|", "tab", ",", " "}

\* C30: with a blank title or without words in the editor no step saves a
\* unit (the unit list is as it was); the word list of the editor grows
\* only by one word from two fields that are not blank, or by a bulk text
\* with a line that parses.
C30_InvalidInputRejected ==
    [][/\ (EditorOpen /\ (Blank(title) \/ words = << >>)
             /\ Len(units') >= Len(units))
             => units' = units
       /\ (EditorOpen /\ EditorOpen' /\ Len(words') > Len(words))
             => \/ /\ ~Blank(newZh) /\ ~Blank(newEn)
                   /\ Len(words') = Len(words) + 1
                   /\ newZh' = << >> /\ newEn' = << >>
                   /\ bulkText' = bulkText
                \/ /\ \E i \in DOMAIN bulkText : GivesWord(bulkText[i])
                   /\ bulkText' = << >>
                   /\ newZh' = newZh /\ newEn' = newEn]_vars

\* C30 witness: an editor with a title of white space, a word, a Chinese
\* field of white space next to a filled English field, and a bulk text
\* whose only line has a blank second part: save, add and import are all
\* three to be rejected.
C30_Witness ==
    /\ EditorOpen /\ title = <<" ">> /\ Len(words) >= 1
    /\ newZh = <<" ">> /\ newEn = <<"w">>
    /\ bulkText = << <<"w", "|", " ">> >>

====
